---- MODULE Spec2Model ----
(***************************************************************************)
(* Model of script.js: the colour engine (hexToRgb, rgbToHsl, hslToHex,    *)
(* lerp, lerpHue, makeGreen) and the grid renderer (buildPalette).         *)
(*                                                                         *)
(* JavaScript Numbers are modelled as IEEE 754 binary64 values: a sign, an *)
(* odd significand kept as a little-endian sequence of limbs, and a binary *)
(* exponent; every arithmetic operation rounds its exact result to 53      *)
(* bits, ties to even.  Strings are sequences of one-character strings.    *)
(***************************************************************************)
EXTENDS Integers, Sequences, FiniteSets, TLC

\* ------------------------------------------------------------------------
\* Bounds of the model
\* ------------------------------------------------------------------------
MaxBuilds == 2    \* buildPalette invocations explored on one page
MaxCore   == 7    \* longest body of a hexToRgb input
MaxBlanks == 1    \* longest run of blanks before and after a hexToRgb input
NumDigits == 3    \* hex digits used to form the round-trip inputs
HueDiv    == 36   \* hues explored start from the multiples of 360 / HueDiv
HueFine   == 1    \* ... each moved by 0/10, ..., HueFine/10 of a degree
TDen      == 2    \* interpolation fractions explored are k / TDen
MaxTotal  == 3    \* palette sizes 1..MaxTotal explored besides TILE_COUNT

\* ------------------------------------------------------------------------
\* Magnitudes: naturals as little-endian sequences of limbs below BASE,
\* without leading zero limbs (<<>> is 0)
\* ------------------------------------------------------------------------
LimbBits == 15

BASE == 2^LimbBits

\* JavaScript runs the statements of a function body in order: the values
\* listed in stmts (a tuple, in statement order) are computed before e
After(stmts, e) == IF stmts = stmts THEN e ELSE e

Rest(a) == IF a = <<>> THEN <<>> ELSE Tail(a)
Low(a)  == IF a = <<>> THEN 0 ELSE Head(a)

RECURSIVE MStrip(_)
MStrip(a) == IF a = <<>> THEN <<>>
             ELSE IF a[Len(a)] = 0 THEN MStrip(SubSeq(a, 1, Len(a) - 1))
             ELSE a

RECURSIVE MOfNat(_)
MOfNat(k) == IF k = 0 THEN <<>> ELSE <<k % BASE>> \o MOfNat(k \div BASE)

RECURSIVE MToNat(_)
MToNat(a) == IF a = <<>> THEN 0 ELSE Head(a) + BASE * MToNat(Tail(a))

RECURSIVE MAddC(_, _, _)
MAddC(a, b, c) ==
  IF a = <<>> /\ b = <<>> THEN (IF c = 0 THEN <<>> ELSE <<c>>)
  ELSE <<(Low(a) + Low(b) + c) % BASE>>
       \o MAddC(Rest(a), Rest(b), (Low(a) + Low(b) + c) \div BASE)

MAdd(a, b) == MAddC(a, b, 0)

\* a - b - c for a >= b + c, before stripping leading zero limbs
RECURSIVE MSubB(_, _, _)
MSubB(a, b, c) ==
  IF a = <<>> THEN <<>>
  ELSE IF Head(a) - Low(b) - c < 0
       THEN <<Head(a) - Low(b) - c + BASE>> \o MSubB(Tail(a), Rest(b), 1)
       ELSE <<Head(a) - Low(b) - c>> \o MSubB(Tail(a), Rest(b), 0)

MSub(a, b) == MStrip(MSubB(a, b, 0))

\* comparison of equally long magnitudes from the most significant limb
RECURSIVE MCmpFrom(_, _, _)
MCmpFrom(a, b, i) ==
  IF i = 0 THEN 0
  ELSE IF a[i] < b[i] THEN -1
  ELSE IF a[i] > b[i] THEN 1
  ELSE MCmpFrom(a, b, i - 1)

MCmp(a, b) == IF Len(a) < Len(b) THEN -1
              ELSE IF Len(a) > Len(b) THEN 1
              ELSE MCmpFrom(a, b, Len(a))

RECURSIVE MMulLimb(_, _, _)
MMulLimb(a, k, c) ==
  IF a = <<>> THEN (IF c = 0 THEN <<>> ELSE <<c>>)
  ELSE <<(Head(a) * k + c) % BASE>> \o MMulLimb(Tail(a), k, (Head(a) * k + c) \div BASE)

\* a * k for a limb k
MTimes(a, k) == MStrip(MMulLimb(a, k, 0))

\* a * BASE + limb
Push(a, limb) == IF a = <<>> /\ limb = 0 THEN <<>> ELSE <<limb>> \o a

RECURSIVE MMul(_, _)
MMul(a, b) ==
  IF a = <<>> \/ b = <<>> THEN <<>>
  ELSE MAdd(MTimes(a, Head(b)), Push(MMul(a, Tail(b)), 0))

\* a div p for a small p, from the most significant limb
RECURSIVE MDivSmall(_, _, _, _)
MDivSmall(a, p, i, r) ==
  IF i = 0 THEN <<>>
  ELSE Append(MDivSmall(a, p, i - 1, (r * BASE + a[i]) % p), (r * BASE + a[i]) \div p)

MDivBy(a, p) == MStrip(MDivSmall(a, p, Len(a), 0))

\* a * 2^k and floor(a / 2^k)
MShl(a, k) ==
  IF a = <<>> THEN <<>>
  ELSE [i \in 1..(k \div LimbBits) |-> 0] \o MMulLimb(a, 2^(k % LimbBits), 0)

MShr(a, k) ==
  IF k \div LimbBits >= Len(a) THEN <<>>
  ELSE MDivBy(SubSeq(a, k \div LimbBits + 1, Len(a)), 2^(k % LimbBits))

\* bit i of a, counted from 0
Bit(a, i) ==
  IF i \div LimbBits >= Len(a) THEN 0
  ELSE (a[i \div LimbBits + 1] \div 2^(i % LimbBits)) % 2

RECURSIVE BitsOf(_)
BitsOf(x) == IF x = 0 THEN 0 ELSE 1 + BitsOf(x \div 2)

BitLen(a) == IF a = <<>> THEN 0 ELSE LimbBits * (Len(a) - 1) + BitsOf(a[Len(a)])

RECURSIVE LowZeros(_)
LowZeros(x) == IF x % 2 = 1 THEN 0 ELSE 1 + LowZeros(x \div 2)

\* the number of trailing zero bits of a > 0
RECURSIVE MLowZeros(_)
MLowZeros(a) == IF Head(a) = 0 THEN LimbBits + MLowZeros(Tail(a)) ELSE LowZeros(Head(a))

\* long division of n by d, the top limb of d being at least BASE / 2:
\* a first guess of the next quotient limb from the leading limbs of r
Guess(r, d) ==
  IF Len(r) < Len(d) THEN 0
  ELSE IF Len(r) = Len(d) THEN r[Len(d)] \div d[Len(d)]
  ELSE IF (r[Len(d) + 1] * BASE + r[Len(d)]) \div d[Len(d)] > BASE - 1 THEN BASE - 1
  ELSE (r[Len(d) + 1] * BASE + r[Len(d)]) \div d[Len(d)]

\* the guess lowered until g * d <= r
RECURSIVE Fit(_, _, _)
Fit(r, d, g) == IF MCmp(MTimes(d, g), r) > 0 THEN Fit(r, d, g - 1) ELSE g

DivTake(q, r, d, g) == After(<<g>>, <<Push(q, g), MSub(r, MTimes(d, g))>>)

DivDigit(q, r, d) == After(<<q, r>>, DivTake(q, r, d, Fit(r, d, Guess(r, d))))

DivStep(qr, limb, d) == DivDigit(qr[1], Push(qr[2], limb), d)

\* <<quotient, remainder>> qr once the limbs n[hi], ..., n[lo] are taken in,
\* from the most significant
RECURSIVE LongDiv(_, _, _, _, _)
LongDiv(qr, n, d, hi, lo) ==
  IF qr = qr /\ hi = lo THEN DivStep(qr, n[hi], d)
  ELSE LongDiv(LongDiv(qr, n, d, hi, (hi + lo) \div 2 + 1), n, d, (hi + lo) \div 2, lo)

DivLimbs(n, d) == IF n = <<>> THEN <<<<>>, <<>>>> ELSE LongDiv(<<<<>>, <<>>>>, n, d, Len(n), 1)

DivScaled(n, d, sh) == DivLimbs(MShl(n, sh), MShl(d, sh))

\* <<floor(n / d), (n mod d) * 2^sh>> for d > 0, sh the shift that brings
\* the top limb of d to at least BASE / 2
MDivMod(n, d) == DivScaled(n, d, LimbBits - BitsOf(d[Len(d)]))

MRemOf(qr, sh) == MShr(qr[2], sh)

\* n mod d
MRem(n, d) ==
  MRemOf(DivScaled(n, d, LimbBits - BitsOf(d[Len(d)])), LimbBits - BitsOf(d[Len(d)]))

\* ------------------------------------------------------------------------
\* JavaScript Numbers: IEEE 754 binary64 values (-1)^neg * m * 2^e, m odd or
\* zero, every operation rounding its exact result to Precision bits, ties
\* to even.  The values of the program stay far from the overflow and
\* subnormal ranges, and -0 is not told from 0.
\* ------------------------------------------------------------------------
Precision == 53

Zero == [neg |-> FALSE, m |-> <<>>, e |-> 0]

Half == [neg |-> FALSE, m |-> <<1>>, e |-> -1]

NormBy(neg, m, e, tz) == [neg |-> neg, m |-> MShr(m, tz), e |-> e + tz]

\* the value m * 2^e with m made odd
Norm(neg, m, e) == IF m = <<>> THEN Zero ELSE NormBy(neg, m, e, MLowZeros(m))

\* m, followed by a nonzero tail when sticky, loses its s lowest bits
RoundsUp(m, s, sticky) ==
  Bit(m, s - 1) = 1 /\ (sticky \/ MLowZeros(m) < s - 1 \/ Bit(m, s) = 1)

FRoundTo(neg, m, e, sticky, s) ==
  Norm(neg,
       IF RoundsUp(m, s, sticky) THEN MAdd(MShr(m, s), <<1>>) ELSE MShr(m, s),
       e + s)

FRoundAt(neg, m, e, sticky, len) ==
  IF len <= Precision THEN Norm(neg, m, e)
  ELSE FRoundTo(neg, m, e, sticky, len - Precision)

\* the Number nearest to m * 2^e
FRound(neg, m, e, sticky) == After(<<m>>, FRoundAt(neg, m, e, sticky, BitLen(m)))

Num(k) == Norm(k < 0, MOfNat(IF k < 0 THEN -k ELSE k), 0)

FNeg(a) == [neg |-> (~a.neg /\ a.m # <<>>), m |-> a.m, e |-> a.e]

FAbs(a) == [neg |-> FALSE, m |-> a.m, e |-> a.e]

MinE(a, b) == IF a.e < b.e THEN a.e ELSE b.e

\* a.m * 2^(a.e - e) for e <= a.e
Scaled(a, e) == MShl(a.m, a.e - e)

\* sign and magnitude of the sum of x, negative when sa, and y, negative when sb
Signed(sa, x, sb, y) ==
  IF sa = sb THEN <<sa, MAdd(x, y)>>
  ELSE IF MCmp(x, y) >= 0 THEN <<sa, MSub(x, y)>>
  ELSE <<sb, MSub(y, x)>>

SumAt(a, b, e) == Signed(a.neg, Scaled(a, e), b.neg, Scaled(b, e))

RoundPair(p, e) == FRound(p[1], p[2], e, FALSE)

NormPair(p, e) == Norm(p[1], p[2], e)

FAdd(a, b) == After(<<a, b>>, RoundPair(SumAt(a, b, MinE(a, b)), MinE(a, b)))

\* a + b without rounding
ExactAdd(a, b) == After(<<a, b>>, NormPair(SumAt(a, b, MinE(a, b)), MinE(a, b)))

FSub(a, b) == FAdd(a, FNeg(b))

FMul(a, b) == After(<<a, b>>, FRound(a.neg # b.neg, MMul(a.m, b.m), a.e + b.e, FALSE))

DivPack(neg, qr, e) == FRound(neg, qr[1], e, qr[2] # <<>>)

\* the quotient of a.m * 2^k by b.m has more than Precision + 1 bits
FDivBy(a, b, k) == DivPack(a.neg # b.neg, MDivMod(MShl(a.m, k), b.m), a.e - b.e - k)

DivShift(la, lb) == IF Precision + 2 + lb - la > 0 THEN Precision + 2 + lb - la ELSE 0

\* a / b for b # 0
FDiv(a, b) ==
  After(<<a, b>>,
        IF a.m = <<>> THEN Zero ELSE FDivBy(a, b, DivShift(BitLen(a.m), BitLen(b.m))))

FModAt(a, b, e) == Norm(a.neg, MRem(Scaled(a, e), Scaled(b, e)), e)

\* the % operator for b # 0: exact, with the sign of the dividend
FMod(a, b) == After(<<a, b>>, FModAt(a, b, MinE(a, b)))

FSign(a) == IF a.m = <<>> THEN 0 ELSE IF a.neg THEN -1 ELSE 1

FCmpAt(a, b, e) == (IF a.neg THEN -1 ELSE 1) * MCmp(Scaled(a, e), Scaled(b, e))

\* -1, 0 or 1 as a < b, a = b or a > b
FCmp(a, b) ==
  After(<<a, b>>,
        IF a.neg # b.neg THEN (IF a.neg THEN -1 ELSE 1) ELSE FCmpAt(a, b, MinE(a, b)))

FLt(a, b) == FCmp(a, b) < 0
FLe(a, b) == FCmp(a, b) <= 0
FEq(a, b) == FCmp(a, b) = 0

FMax(a, b) == IF FLt(a, b) THEN b ELSE a
FMin(a, b) == IF FLt(b, a) THEN b ELSE a

\* Math.floor, as an integer: with e < 0 the odd m makes a no integer
FFloor(a) ==
  IF a.e >= 0 THEN (IF a.neg THEN -1 ELSE 1) * MToNat(MShl(a.m, a.e))
  ELSE IF a.neg THEN -MToNat(MShr(a.m, -a.e)) - 1
  ELSE MToNat(MShr(a.m, -a.e))

\* Math.round: the nearest integer, halves towards +Infinity
MathRound(a) == FFloor(ExactAdd(a, Half))

\* ------------------------------------------------------------------------
\* Strings
\* ------------------------------------------------------------------------
WhiteSpace == {" ", "\t"}

LowerHex == <<"0", "1", "2", "3", "4", "5", "6", "7", "8", "9",
              "a", "b", "c", "d", "e", "f">>

UpperHex == <<"0", "1", "2", "3", "4", "5", "6", "7", "8", "9",
              "A", "B", "C", "D", "E", "F">>

IsHexChar(c) == \E k \in 1..16 : LowerHex[k] = c \/ UpperHex[k] = c

HexVal(c) == (CHOOSE k \in 1..16 : LowerHex[k] = c \/ UpperHex[k] = c) - 1

\* String.prototype.replace(/^#/, "")
StripHash(str) == IF str # <<>> /\ Head(str) = "#" THEN Tail(str) ELSE str

RECURSIVE TrimStart(_)
TrimStart(str) == IF str # <<>> /\ Head(str) \in WhiteSpace THEN TrimStart(Tail(str))
                  ELSE str

RECURSIVE TrimEnd(_)
TrimEnd(str) == IF str # <<>> /\ str[Len(str)] \in WhiteSpace
                THEN TrimEnd(SubSeq(str, 1, Len(str) - 1))
                ELSE str

\* String.prototype.trim
Trim(str) == TrimEnd(TrimStart(str))

\* String.prototype.slice(from, to) for 0 <= from <= to
Slice(str, from, to) ==
  SubSeq(str, from + 1, IF to < Len(str) THEN to ELSE Len(str))

RECURSIVE Repeat(_, _)
Repeat(c, k) == IF k <= 0 THEN <<>> ELSE <<c>> \o Repeat(c, k - 1)

\* String.prototype.padStart(width, c)
PadStart(str, width, c) == Repeat(c, width - Len(str)) \o str

\* Number.prototype.toString(radix) for an integer and radix 10 or 16
RECURSIVE NatToString(_, _)
NatToString(k, radix) ==
  IF k < radix THEN <<LowerHex[k + 1]>>
  ELSE NatToString(k \div radix, radix) \o <<LowerHex[(k % radix) + 1]>>

IntToString(k, radix) ==
  IF k < 0 THEN <<"-">> \o NatToString(-k, radix) ELSE NatToString(k, radix)

\* the value of the longest prefix of hex digits of str, acc digits so far
RECURSIVE HexPrefix(_, _, _)
HexPrefix(str, acc, seen) ==
  IF str # <<>> /\ IsHexChar(Head(str))
  THEN HexPrefix(Tail(str), 16 * acc + HexVal(Head(str)), TRUE)
  ELSE [nan |-> ~seen, v |-> acc]

\* parseInt(str, 16): leading blanks, a sign and a 0x prefix are skipped, the
\* digits stop at the first character that is not a hex digit, and the
\* result is NaN when no digit is found
ParseInt16(str) ==
  LET t0   == TrimStart(str)
      sgn  == IF t0 # <<>> /\ Head(t0) = "-" THEN -1 ELSE 1
      t1   == IF t0 # <<>> /\ Head(t0) \in {"-", "+"} THEN Tail(t0) ELSE t0
      t2   == IF Len(t1) >= 2 /\ t1[1] = "0" /\ t1[2] \in {"x", "X"}
              THEN SubSeq(t1, 3, Len(t1)) ELSE t1
      p    == HexPrefix(t2, 0, FALSE)
  IN [nan |-> p.nan, v |-> IF p.nan THEN 0 ELSE sgn * p.v]

\* ------------------------------------------------------------------------
\* Configuration
\* ------------------------------------------------------------------------
TILE_COUNT == 60

START_HEX == <<"#", "3", "a", "3", "b", "2", "3">>
MID_HEX   == <<"#", "7", "3", "6", "a", "4", "6">>
END_HEX   == <<"#", "d", "4", "c", "7", "a", "6">>

MID_INDEX == MathRound(FDiv(Num(TILE_COUNT - 1), Num(2)))

INTERESTS == <<"Architecture", "Photography", "3D visualisation", "Fashion",
               "Sport", "Music", "Graphic design", "Interior design">>

\* ------------------------------------------------------------------------
\* Colour engine
\* ------------------------------------------------------------------------
\* 1 - |2l - 1|
Spread(l) == FSub(Num(1), FAbs(FSub(FMul(Num(2), l), Num(1))))

toHex(k) == PadStart(IntToString(k, 16), 2, "0")

\* Math.round((v + m) * 255)
hslChannel(v, m) == MathRound(FMul(FAdd(v, m), Num(255)))

\* the rounded channels, formatted
hslFormat(rgb, m) ==
  After(<<rgb, m>>,
        <<"#">> \o toHex(hslChannel(rgb[1], m)) \o toHex(hslChannel(rgb[2], m))
                \o toHex(hslChannel(rgb[3], m)))

hslInSector(hh, lo) == FLe(Num(lo), hh) /\ FLt(hh, Num(lo + 1))

\* the if-chain over hh: which of r, g, b get c, x and 0
hslSector(c, hh, x) ==
  IF hslInSector(hh, 0) THEN <<c, x, Num(0)>>
  ELSE IF hslInSector(hh, 1) THEN <<x, c, Num(0)>>
  ELSE IF hslInSector(hh, 2) THEN <<Num(0), c, x>>
  ELSE IF hslInSector(hh, 3) THEN <<Num(0), x, c>>
  ELSE IF hslInSector(hh, 4) THEN <<x, Num(0), c>>
  ELSE IF hslInSector(hh, 5) THEN <<c, Num(0), x>>
  ELSE <<Num(0), Num(0), Num(0)>>

\* r, g, b by sector and m = l - c / 2
hslMix(l, c, hh, x) ==
  After(<<x>>, hslFormat(hslSector(c, hh, x), FSub(l, FDiv(c, Num(2)))))

\* x = c * (1 - |hh % 2 - 1|)
hslSecond(l, c, hh) ==
  After(<<c, hh>>,
        hslMix(l, c, hh, FMul(c, FSub(Num(1), FAbs(FSub(FMod(hh, Num(2)), Num(1)))))))

\* c = (1 - |2l - 1|) * s and hh = h / 60
hslChroma(h, s, l) ==
  After(<<s, l>>, hslSecond(l, FMul(Spread(l), s), FDiv(h, Num(60))))

hslToHex(h, s0, l0) ==
  After(<<h, s0, l0>>, hslChroma(h, FDiv(s0, Num(100)), FDiv(l0, Num(100))))

hexChannels(clean) ==
  IF Len(clean) # 6
  THEN [threw |-> TRUE, error |-> "Expected 6-digit hex"]
  ELSE [threw |-> FALSE,
        r |-> ParseInt16(Slice(clean, 0, 2)),
        g |-> ParseInt16(Slice(clean, 2, 4)),
        b |-> ParseInt16(Slice(clean, 4, 6))]

hexToRgb(hex) == hexChannels(Trim(StripHash(hex)))

\* the hue before scaling, by the maximal channel
rgbRawHue(r, g, b, max, d) ==
  IF FEq(max, r) THEN FMod(FDiv(FSub(g, b), d), Num(6))
  ELSE IF FEq(max, g) THEN FAdd(FDiv(FSub(b, r), d), Num(2))
  ELSE FAdd(FDiv(FSub(r, g), d), Num(4))

\* the scaled hue left negative
rgbScaleHueUnwrapped(h0) == FMul(h0, Num(60))

\* h *= 60; if (h < 0) h += 360
rgbScaleHue(h0) ==
  After(<<h0>>,
        IF FLt(FMul(h0, Num(60)), Num(0)) THEN FAdd(FMul(h0, Num(60)), Num(360))
        ELSE FMul(h0, Num(60)))

rgbHue(r, g, b, max, d) ==
  IF FSign(d) = 0 THEN Num(0) ELSE rgbScaleHue(rgbRawHue(r, g, b, max, d))

rgbSat(d, l) == IF FSign(d) = 0 THEN Num(0) ELSE FDiv(d, Spread(l))

rgbResult(r, g, b, max, d, l) ==
  After(<<d, l>>,
        [h |-> rgbHue(r, g, b, max, d),
         s |-> FMul(rgbSat(d, l), Num(100)),
         l |-> FMul(l, Num(100))])

\* d = max - min and l = (max + min) / 2
rgbSpan(r, g, b, max, min) ==
  After(<<max, min>>,
        rgbResult(r, g, b, max, FSub(max, min), FDiv(FAdd(max, min), Num(2))))

rgbExtremes(r, g, b) ==
  After(<<r, g, b>>, rgbSpan(r, g, b, FMax(r, FMax(g, b)), FMin(r, FMin(g, b))))

rgbToHsl(r0, g0, b0) ==
  rgbExtremes(FDiv(r0, Num(255)), FDiv(g0, Num(255)), FDiv(b0, Num(255)))

lerp(a, b, t) == FAdd(a, FMul(FSub(b, a), t))

\* the signed step of lerpHue
hueDelta(h1, h2) ==
  FSub(FMod(FAdd(FSub(h2, h1), Num(540)), Num(360)), Num(180))

lerpHue(h1, h2, t) ==
  FMod(FAdd(FAdd(h1, FMul(hueDelta(h1, h2), t)), Num(360)), Num(360))

\* h, s and l interpolated and converted back
greenMix(fromHsl, toHsl, localT) ==
  After(<<fromHsl, toHsl>>,
        hslToHex(lerpHue(fromHsl.h, toHsl.h, localT),
                 lerp(fromHsl.s, toHsl.s, localT),
                 lerp(fromHsl.l, toHsl.l, localT)))

greenHsl(fromRgb, toRgb, localT) ==
  After(<<fromRgb, toRgb>>,
        greenMix(rgbToHsl(Num(fromRgb.r.v), Num(fromRgb.g.v), Num(fromRgb.b.v)),
                 rgbToHsl(Num(toRgb.r.v), Num(toRgb.g.v), Num(toRgb.b.v)),
                 localT))

\* the anchors of segment a
greenSegment(a, localT) ==
  After(<<a, localT>>,
        greenHsl(hexToRgb(IF a = 0 THEN START_HEX ELSE MID_HEX),
                 hexToRgb(IF a = 0 THEN MID_HEX ELSE END_HEX),
                 localT))

\* the second half taken without its division by 0.5
greenAtUnscaled(t) ==
  After(<<t>>,
        greenSegment(IF FLt(t, Half) THEN 0 ELSE 1,
                     IF FLt(t, Half) THEN FDiv(t, Half) ELSE FSub(t, Half)))

\* a and localT from t
greenAt(t) ==
  After(<<t>>,
        greenSegment(IF FLt(t, Half) THEN 0 ELSE 1,
                     IF FLt(t, Half) THEN FDiv(t, Half)
                     ELSE FDiv(FSub(t, Half), Half)))

makeGreen(i, total) ==
  greenAt(IF total <= 1 THEN Num(0) ELSE FDiv(Num(i), Num(total - 1)))

\* the colours of the configured palette
Greens == [i \in 0..(TILE_COUNT - 1) |-> makeGreen(i, TILE_COUNT)]

\* ------------------------------------------------------------------------
\* State
\* ------------------------------------------------------------------------
VARIABLES
  hasPalette,  \* document.getElementById("palette") finds the container
  children,    \* the child nodes of the container, in document order
  created,     \* number of button elements created so far (node identities)
  draws,       \* number of Math.random() calls so far
  lastDraw,    \* Math.floor(Math.random() * TILE_COUNT) of the latest build
  builds,      \* number of buildPalette invocations so far
  href,        \* window.location.href
  pc,          \* "idle", or "call"/"done" around a colour-engine call
  fn,          \* the colour-engine function called
  arg,         \* its argument
  ret          \* its result

vars == <<hasPalette, children, created, draws, lastDraw, builds, href, pc, fn, arg, ret>>

dom == <<hasPalette, children, created, draws, lastDraw, builds, href>>

Home == "./"
EyePage == "./eye.html"

\* ------------------------------------------------------------------------
\* Grid renderer
\* ------------------------------------------------------------------------
\* the draw taken as it comes
interestsIndexUnshifted(d) == d

\* the index of the interests tile for the draw d
interestsIndexOf(d) == IF d = MID_INDEX THEN (d + 1) % TILE_COUNT ELSE d

\* every tile interpolated
tileColorInterpolated(i) == Greens[i]

\* the colour of tile i
tileColor(i) == IF i = MID_INDEX THEN MID_HEX ELSE Greens[i]

\* `Color ${i + 1}: ${color}`
ariaLabel(i, color) ==
  <<"C", "o", "l", "o", "r", " ">> \o IntToString(i + 1, 10) \o <<":", " ">> \o color

\* the ordinal without padding
labelTextUnpadded(i, color) ==
  <<"#">> \o IntToString(i + 1, 10) \o <<" ", " ">> \o color

\* `#${String(i + 1).padStart(3, "0")}  ${color}`
labelText(i, color) ==
  <<"#">> \o PadStart(IntToString(i + 1, 10), 3, "0") \o <<" ", " ">> \o color

eyeText == [className |-> "eye-text",
            text |-> <<"E", "y", "e", " ", "C", "o", "l", "o", "r">>,
            items |-> <<>>]

interestsBox == [className |-> "interests",
                 text |-> <<>>,
                 items |-> INTERESTS]

labelBox(i, color) == [className |-> "label", text |-> labelText(i, color), items |-> <<>>]

\* the button built by one iteration of the loop
Tile(i, interestsIndex, id, build) ==
  LET color == tileColor(i)
  IN [id        |-> id,
      build     |-> build,
      className |-> {"swatch"}
                    \cup (IF i = MID_INDEX THEN {"has-eye"} ELSE {})
                    \cup (IF i = interestsIndex THEN {"has-interests"} ELSE {}),
      type      |-> "button",
      backgroundColor |-> color,
      ariaLabel |-> ariaLabel(i, color),
      click     |-> IF i = MID_INDEX THEN EyePage ELSE "",
      kids      |-> (IF i = MID_INDEX THEN <<eyeText>> ELSE <<>>)
                    \o (IF i = interestsIndex THEN <<interestsBox>> ELSE <<>>)
                    \o <<labelBox(i, color)>>]

\* the fragment appended after the old children
appendChildren(old, frag) == old \o frag

\* palette.replaceChildren(frag)
replaceChildren(old, frag) == frag

\* the random index drawn before the container is looked up
buildPaletteAbsentDrawing ==
  /\ ~hasPalette
  /\ draws' = draws + 1
  /\ UNCHANGED <<hasPalette, children, created, lastDraw, href>>

\* buildPalette on a page without the container
buildPaletteAbsent ==
  /\ ~hasPalette
  /\ UNCHANGED <<hasPalette, children, created, draws, lastDraw, href>>

\* buildPalette on a page with the container, the random draw being d
buildPaletteMounted(d) ==
  /\ hasPalette
  /\ LET interestsIndex == interestsIndexOf(d)
         frag == [k \in 1..TILE_COUNT |->
                    Tile(k - 1, interestsIndex, created + k, builds + 1)]
     IN /\ children' = replaceChildren(children, frag)
        /\ created' = created + TILE_COUNT
        /\ draws' = draws + 1
        /\ lastDraw' = d
  /\ UNCHANGED <<hasPalette, href>>

buildPalette ==
  /\ pc = "idle"
  /\ href = Home
  /\ builds < MaxBuilds
  /\ builds' = builds + 1
  /\ \/ buildPaletteAbsent
     \/ \E d \in 0..(TILE_COUNT - 1) : buildPaletteMounted(d)
  /\ UNCHANGED <<pc, fn, arg, ret>>

\* a click on child k, which runs its click listener if it has one
Click(k) ==
  /\ pc = "idle"
  /\ href = Home
  /\ k \in 1..Len(children)
  /\ children[k].click # ""
  /\ href' = children[k].click
  /\ UNCHANGED <<hasPalette, children, created, draws, lastDraw, builds, pc, fn, arg, ret>>

Init ==
  /\ hasPalette \in BOOLEAN
  /\ children = <<>>
  /\ created = 0
  /\ draws = 0
  /\ lastDraw = -1
  /\ builds = 0
  /\ href = Home
  /\ pc = "idle"
  /\ fn = "none"
  /\ arg = <<>>
  /\ ret = <<>>

Next ==
  \/ buildPalette
  \/ \E k \in 1..TILE_COUNT : Click(k)

Spec == Init /\ [][Next]_vars

\* ------------------------------------------------------------------------
\* The colour engine called on its own
\* ------------------------------------------------------------------------
\* a page on which buildPalette does not run
Untouched ==
  /\ hasPalette = FALSE
  /\ children = <<>>
  /\ created = 0
  /\ draws = 0
  /\ lastDraw = -1
  /\ builds = 0
  /\ href = Home

\* hexToRgb: blanks, an optional '#', a body and blanks
Blanks == UNION {[1..n -> WhiteSpace] : n \in 0..MaxBlanks}

CoreChars == {"1", "a", "A", "g"}

Cores == UNION {[1..n -> CoreChars] : n \in 0..MaxCore}

HexInputs == [lead : Blanks, hash : BOOLEAN, core : Cores, trail : Blanks]

HexString(x) == x.lead \o (IF x.hash THEN <<"#">> ELSE <<>>) \o x.core \o x.trail

InitHexToRgb ==
  /\ Untouched
  /\ pc = "call"
  /\ fn = "hexToRgb"
  /\ arg \in HexInputs
  /\ ret = <<>>

CallHexToRgb ==
  /\ pc = "call"
  /\ fn = "hexToRgb"
  /\ ret' = hexToRgb(HexString(arg))
  /\ pc' = "done"
  /\ UNCHANGED <<dom, fn, arg>>

SpecHexToRgb == InitHexToRgb /\ [][CallHexToRgb]_vars

\* hexToRgb, then rgbToHsl, then hslToHex
roundTripHex(hsl) == After(<<hsl>>, hslToHex(hsl.h, hsl.s, hsl.l))

roundTripRgb(rgb) ==
  After(<<rgb>>, roundTripHex(rgbToHsl(Num(rgb.r.v), Num(rgb.g.v), Num(rgb.b.v))))

roundTrip(hex) == roundTripRgb(hexToRgb(hex))

RoundDigits == <<"0", "f", "8", "A", "3", "c", "7", "5", "E", "1", "b", "9", "2", "D", "4", "6">>

RoundInputs == [1..6 -> {RoundDigits[k] : k \in 1..NumDigits}]

InitRoundTrip ==
  /\ Untouched
  /\ pc = "call"
  /\ fn = "roundTrip"
  /\ arg \in RoundInputs
  /\ ret = <<>>

CallRoundTrip ==
  /\ pc = "call"
  /\ fn = "roundTrip"
  /\ ret' = roundTrip(arg)
  /\ pc' = "done"
  /\ UNCHANGED <<dom, fn, arg>>

SpecRoundTrip == InitRoundTrip /\ [][CallRoundTrip]_vars

\* lerpHue: the hue k * (360 / HueDiv) + f / 10
HueOf(k, f) == FAdd(FMul(Num(k), FDiv(Num(360), Num(HueDiv))), FDiv(Num(f), Num(10)))

HueInputs ==
  {[h1 |-> HueOf(a, f), h2 |-> HueOf(b, f), t |-> FDiv(Num(k), Num(TDen))] :
     a \in 0..(HueDiv - 1), b \in 0..(HueDiv - 1), f \in 0..HueFine, k \in 0..TDen}

InitLerpHue ==
  /\ Untouched
  /\ pc = "call"
  /\ fn = "lerpHue"
  /\ arg \in HueInputs
  /\ ret = <<>>

CallLerpHue ==
  /\ pc = "call"
  /\ fn = "lerpHue"
  /\ ret' = [delta |-> hueDelta(arg.h1, arg.h2), value |-> lerpHue(arg.h1, arg.h2, arg.t)]
  /\ pc' = "done"
  /\ UNCHANGED <<dom, fn, arg>>

SpecLerpHue == InitLerpHue /\ [][CallLerpHue]_vars

\* makeGreen: every index of the palette sizes explored
GreenInputs ==
  {x \in [i : 0..(TILE_COUNT - 1), total : {TILE_COUNT} \cup 1..MaxTotal] : x.i < x.total}

InitMakeGreen ==
  /\ Untouched
  /\ pc = "call"
  /\ fn = "makeGreen"
  /\ arg \in GreenInputs
  /\ ret = <<>>

CallMakeGreen ==
  /\ pc = "call"
  /\ fn = "makeGreen"
  /\ ret' = makeGreen(arg.i, arg.total)
  /\ pc' = "done"
  /\ UNCHANGED <<dom, fn, arg>>

SpecMakeGreen == InitMakeGreen /\ [][CallMakeGreen]_vars

\* ------------------------------------------------------------------------
\* Properties of the grid renderer
\* ------------------------------------------------------------------------
\* the container has been rendered into
Rendered == hasPalette /\ builds >= 1

TilesWith(marker) == {k \in 1..Len(children) : marker \in children[k].className}

TilesHolding(box) ==
  {k \in 1..Len(children) : \E j \in 1..Len(children[k].kids) : children[k].kids[j] = box}

Suffix(str, n) == SubSeq(str, Len(str) - n + 1, Len(str))

\* the label element of a tile is its last child
LabelOf(tile) == tile.kids[Len(tile.kids)].text

Digit(k) == LowerHex[(k % 10) + 1]

\* C1: after buildPalette has run with the draw d, exactly the tile at
\* MID_INDEX carries the landmark marker and its text, and exactly one tile
\* carries the disclosure marker and list, at index d when d # MID_INDEX
\* and (d + 1) mod TILE_COUNT otherwise, which is never MID_INDEX
LandmarkAndDisclosure ==
  Rendered =>
    LET expected == IF lastDraw # MID_INDEX THEN lastDraw
                    ELSE (lastDraw + 1) % TILE_COUNT
    IN /\ lastDraw \in 0..(TILE_COUNT - 1)
       /\ TilesWith("has-eye") = {MID_INDEX + 1}
       /\ TilesHolding(eyeText) = {MID_INDEX + 1}
       /\ TilesWith("has-interests") = {expected + 1}
       /\ TilesHolding(interestsBox) = {expected + 1}
       /\ expected # MID_INDEX

\* C1 witness: a build whose draw fell on the landmark index
DrawOnLandmark ==
  Rendered /\ lastDraw = MID_INDEX /\ TilesWith("has-interests") = {MID_INDEX + 2}

\* C2: on a page with the container, after n >= 1 invocations the container
\* holds exactly the TILE_COUNT tiles created by the latest invocation, in
\* order, none of an earlier one, and so a single click listener
RenderingIdempotent ==
  hasPalette =>
    /\ builds = 0 => children = <<>>
    /\ builds >= 1 =>
         /\ Len(children) = TILE_COUNT
         /\ created = builds * TILE_COUNT
         /\ \A k \in 1..Len(children) :
              /\ children[k].build = builds
              /\ children[k].id = created - TILE_COUNT + k
         /\ Cardinality({k \in 1..Len(children) : children[k].click # ""}) = 1

\* C2 witness: the container after a second invocation
RenderedAgain == hasPalette /\ builds >= 2 /\ Len(children) = TILE_COUNT

\* C3: the rendered grid has exactly 60 tiles, and the label of the tile at
\* index i starts with '#' and the ordinal i + 1 written with 3 digits, so
\* the ordinals run 001..060 in order
OrdinalLabels ==
  Rendered =>
    /\ Len(children) = 60
    /\ \A k \in 1..Len(children) :
         SubSeq(LabelOf(children[k]), 1, 6) =
           <<"#", Digit(k \div 100), Digit(k \div 10), Digit(k), " ", " ">>

\* C3 witness: a grid whose last tile shows the ordinal 060
LastOrdinalShown ==
  Rendered /\ SubSeq(LabelOf(children[Len(children)]), 1, 4) = <<"#", "0", "6", "0">>

\* C7: in a rendered grid the tile at MID_INDEX has the colour MID_HEX and
\* every other tile i the colour makeGreen(i, TILE_COUNT); the fill, the
\* label and the accessible description of a tile show the same colour
TileColours ==
  Rendered =>
    \A k \in 1..Len(children) :
      LET color == IF k - 1 = MID_INDEX THEN MID_HEX ELSE Greens[k - 1]
      IN /\ children[k].backgroundColor = color
         /\ Suffix(LabelOf(children[k]), 7) = color
         /\ Suffix(children[k].ariaLabel, 9) = <<":", " ">> \o color

\* C7 witness: a grid whose landmark tile shows MID_HEX where interpolation
\* gives another colour, and whose disclosure tile shows its interpolated one
MidColourForced ==
  /\ Rendered
  /\ children[MID_INDEX + 1].backgroundColor = MID_HEX
  /\ Greens[MID_INDEX] # MID_HEX
  /\ \E k \in TilesWith("has-interests") : children[k].backgroundColor = Greens[k - 1]

\* C9: on a page without the container buildPalette changes nothing: no
\* tile, no listener, no random draw, the location as it was
AbsentMountNoOp ==
  ~hasPalette =>
    /\ children = <<>>
    /\ created = 0
    /\ draws = 0
    /\ lastDraw = -1
    /\ href = Home

\* C9 witness: buildPalette has returned on a page without the container
AbsentMountCalled == ~hasPalette /\ builds >= 1 /\ pc = "idle"
\* ------------------------------------------------------------------------
\* Properties of the colour engine
\* ------------------------------------------------------------------------
SixHexDigits(str) == Len(str) = 6 /\ \A k \in 1..6 : IsHexChar(str[k])

\* the value of the k-th pair of hex digits of str
Channel(str, k) == 16 * HexVal(str[2 * k - 1]) + HexVal(str[2 * k])

Returned(f) == pc = "done" /\ fn = f

\* C4: hexToRgb fails, returning no colour, for every input whose body,
\* once the leading '#' and the surrounding blanks are taken off, is not
\* exactly 6 hex characters: a wrong length or a character that is no hex digit
MalformedHexFails ==
  (Returned("hexToRgb") /\ ~SixHexDigits(arg.core)) => ret.threw

\* C4 witness: a body of 6 characters, none a hex digit, gives a result
\* whose channels are NaN
NonHexAccepted ==
  /\ Returned("hexToRgb")
  /\ HexString(arg) = <<"g", "g", "g", "g", "g", "g">>
  /\ ~ret.threw
  /\ ret.r.nan /\ ret.g.nan /\ ret.b.nan

\* C5: for every body x of exactly 6 hex digits hexToRgb succeeds with the
\* channels of x, whatever the case of x, with or without a '#' before
\* it, and with or without blanks around it
HexInsensitive ==
  (Returned("hexToRgb") /\ SixHexDigits(arg.core)) =>
    /\ ~ret.threw
    /\ \A k \in 1..3 :
         <<ret.r, ret.g, ret.b>>[k] = [nan |-> FALSE, v |-> Channel(arg.core, k)]

\* C5 witness: a blank before the '#' makes hexToRgb fail on 6 hex digits
BlankBeforeHashFails ==
  /\ Returned("hexToRgb")
  /\ HexString(arg) = <<" ", "#", "a", "a", "a", "a", "a", "a">>
  /\ ret.threw

\* the colour makeGreen gives at MID_INDEX of the configured palette
MID_GREEN == <<"#", "7", "5", "6", "c", "4", "7">>

ExactMul(a, b) == Norm(a.neg # b.neg, MMul(a.m, b.m), a.e + b.e)

\* a and b are the same angle
SameAngle(a, b) == FMod(ExactAdd(a, FNeg(b)), Num(360)) = Zero

\* C8: for hues h1, h2 in [0, 360) and t in [0, 1] the step delta of
\* lerpHue lies in [-180, 180] and is the arc from h1 to h2, the result
\* lies in [0, 360) and is the angle h1 + t * delta, and lerpHue(h, h, t)
\* is h
ShorterArc ==
  Returned("lerpHue") =>
    /\ FLe(Num(-180), ret.delta) /\ FLe(ret.delta, Num(180))
    /\ SameAngle(ExactAdd(arg.h1, ret.delta), arg.h2)
    /\ FLe(Zero, ret.value) /\ FLt(ret.value, Num(360))
    /\ SameAngle(ret.value, ExactAdd(arg.h1, ExactMul(ret.delta, arg.t)))
    /\ arg.h1 = arg.h2 => ret.value = arg.h1

\* C8 witness: a hue interpolated with itself comes back changed
HueDrifts ==
  /\ Returned("lerpHue")
  /\ arg.h1 = FDiv(Num(1), Num(10))
  /\ arg.h2 = arg.h1
  /\ arg.t = Half
  /\ ret.value # arg.h1

WellFormedHex(str) ==
  /\ Len(str) = 7
  /\ str[1] = "#"
  /\ \A k \in 2..7 : \E j \in 1..16 : LowerHex[j] = str[k]

Distance(x, y) == IF x < y THEN y - x ELSE x - y

\* C10: for a string x of 6 hex digits, hexToRgb, then rgbToHsl, then
\* hslToHex give a '#' and 6 hex digits whose red, green and blue
\* channels are each within 1 of the channel of x
RoundTripClose ==
  Returned("roundTrip") =>
    /\ WellFormedHex(ret)
    /\ \A k \in 1..3 : Distance(Channel(Tail(ret), k), Channel(arg, k)) <= 1

\* C10 witness: the round trip of f0008f, whose hue is negative before
\* rgbToHsl adds 360 to it
RoundTripWrapsHue ==
  /\ Returned("roundTrip")
  /\ arg = <<"f", "0", "0", "0", "8", "f">>
  /\ ret = <<"#">> \o arg
====
